---- MODULE Spec2Model ----
(***************************************************************************)
(* Model of the market-state snapshot pipeline of utils/metadata:          *)
(*   compute_limits, calculate_continuous_limit_up_optimized,              *)
(*   create_limit_status_parquet, safe_write_parquet and the               *)
(*   MarketMetadataManager build / merge / load operations.                *)
(*                                                                         *)
(* Representation.                                                         *)
(*   - A table (polars DataFrame) is a sequence of records (rows).         *)
(*   - A nullable cell is a sequence: <<>> is null, <<v>> is the value v.  *)
(*   - Prices are integers in mills (1/1000 yuan): 10.00 is 10000, so      *)
(*     that .round(2) is a real rounding.  The arithmetic is exact; the    *)
(*     binary floating point error of the source is not modelled.          *)
(*   - Percentages are integers in 1/100 of a percent: the column          *)
(*     pctChg (涨跌幅) 10.00 is 1000 and the limit 0.10 is 1000, so         *)
(*     pctChg * 0.01 >= limit_pct is pctChg >= limit_pct here.             *)
(*   - Strings (code 代码, name 名称) are sequences of character codes.     *)
(*   - Column names: code 代码, name 名称, date 日期, open 开盘,            *)
(*     high 最高, close 收盘, pctChg 涨跌幅, prev_close 昨收,               *)
(*     limit_pct 涨跌幅限制, limit_up_price 涨停价, limit_down_price        *)
(*     跌停价, is_limit_up 涨停, is_limit_down 跌停, is_break 炸板,         *)
(*     streak_len 连板数, board_label 连板天数 (<<D, B>> is "D天B板").      *)
(*   - A file is a record: kind "none" (no file at the path), "complete"   *)
(*     (a readable parquet file with the rows given) or "partial" (empty,  *)
(*     truncated or half copied).                                          *)
(*                                                                         *)
(* Specifications.                                                         *)
(*   SpecDerive  the derivation pipeline on one input table.               *)
(*   Spec        the raw-bar store and the snapshot, one step per handler. *)
(*   SpecWrite   safe_write_parquet step by step, with reader and crash.   *)
(*   SpecLoad    load_market_states with its cache, beside the builds.     *)
(*   SpecClean   a provider batch with malformed bars, merged and built.   *)
(*   SpecRebuild the rebuild on the same bars in every order.              *)
(*   SpecSector  SectorDataManager._calculate_technical_indicators, by     *)
(*               column types.                                             *)
(*   SpecMerge   DataProcessor.merge_and_deduplicate_data.                 *)
(*   SpecLevels  the key-level cache of utils/levels.py.                   *)
(*   SpecLoadLoop load_market_states step by step, with its rebuilds.      *)
(* The last four keep their tables in stage, df and out.                   *)
(***************************************************************************)
EXTENDS Integers, Sequences, FiniteSets, TLC

VARIABLES
    stage,      \* position in the pipeline or in the call modelled
    df,         \* the table handed to the pipeline (raw daily bars)
    out,        \* the table produced so far
    raw,        \* the file stock_daily_metadata.parquet
    snap,       \* the file market_states.parquet (the snapshot)
    ret,        \* what the last build / merge call returned
    hist,       \* history: the last batch merged and the snapshot it gave
    rt,         \* history: the snapshot of the last full rebuild
    prevRaw,    \* history: the raw-bar file before the last raw-bar merge
    wpc,        \* position of the writer inside safe_write_parquet
    attempt,    \* loop variable of safe_write_parquet
    tmp,        \* the temporary file of the current attempt
    tmpBound,   \* binding of the local temp_file: "unbound", "none", "file"
    wdf,        \* the table being written
    old,        \* history: the snapshot file when the build / merge began
    seen,       \* what a concurrent reader of the snapshot path last read
    litter,     \* temporary files left behind in the snapshot directory
    cache,      \* _market_states_cache of the manager: null or the table
    age,        \* seconds since _cache_timestamp
    backup,     \* the file last moved aside as .corrupted_<time>
    loaded,     \* history: what the last load_market_states call did
    rebuilt     \* history: the snapshot was replaced since the last load

deriveVars == <<stage, df, out>>

storeVars == <<raw, snap, ret>>

histVars == <<hist, rt, prevRaw>>

writeVars == <<wpc, attempt, tmp, tmpBound, wdf, old, seen, litter>>

loadVars == <<cache, age, backup, loaded, rebuilt>>

vars == <<stage, df, out, raw, snap, ret, hist, rt, prevRaw, wpc, attempt, tmp,
          tmpBound, wdf, old, seen, litter, cache, age, backup, loaded, rebuilt>>

-----------------------------------------------------------------------------
(* Nullable cells and Kleene logic, as polars evaluates expressions.       *)

Null == <<>>

Some(v) == <<v>>

IsNull(c) == c = <<>>

IsTrue(c) == c = <<TRUE>>

KOr(a, b) ==
    IF a = <<TRUE>> \/ b = <<TRUE>> THEN <<TRUE>>
    ELSE IF a = <<>> \/ b = <<>> THEN <<>>
    ELSE <<FALSE>>

KAnd(a, b) ==
    IF a = <<FALSE>> \/ b = <<FALSE>> THEN <<FALSE>>
    ELSE IF a = <<>> \/ b = <<>> THEN <<>>
    ELSE <<TRUE>>

KGe(a, b) == IF a = <<>> \/ b = <<>> THEN <<>> ELSE <<a[1] >= b[1]>>

KLe(a, b) == IF a = <<>> \/ b = <<>> THEN <<>> ELSE <<a[1] <= b[1]>>

KLt(a, b) == IF a = <<>> \/ b = <<>> THEN <<>> ELSE <<a[1] < b[1]>>

KEq(a, b) == IF a = <<>> \/ b = <<>> THEN <<>> ELSE <<a[1] = b[1]>>

KNe(a, b) == IF a = <<>> \/ b = <<>> THEN <<>> ELSE <<a[1] # b[1]>>

-----------------------------------------------------------------------------
(* Rounding to 2 decimals.  RoundHalfAway(n, d) is n/d rounded to the      *)
(* nearest integer, halves away from zero (d > 0).                         *)

RoundHalfAway(n, d) ==
    IF n >= 0 THEN (2 * n + d) \div (2 * d)
    ELSE 0 - ((2 * (0 - n) + d) \div (2 * d))

\* .round(2) of a price in mills: the nearest multiple of 10 mills.
Round2(c) == IF c = <<>> THEN <<>> ELSE <<10 * RoundHalfAway(c[1], 10)>>

\* (price * (10000 + bp) / 10000).round(2), price in mills, bp in 1/100 percent
Round2Scaled(c, bp) ==
    IF c = <<>> THEN <<>>
    ELSE <<10 * RoundHalfAway(c[1] * (10000 + bp), 100000)>>

-----------------------------------------------------------------------------
(* Strings.                                                                 *)

\* the pattern "ST" as character codes
StrST == <<83, 84>>

\* str.starts_with(prefix)
StartsWith(s, prefix) ==
    /\ Len(s) >= Len(prefix)
    /\ SubSeq(s, 1, Len(prefix)) = prefix

\* str.contains(pat)
Contains(s, pat) ==
    \E i \in 1..Len(s) :
        /\ i + Len(pat) - 1 <= Len(s)
        /\ SubSeq(s, i, i + Len(pat) - 1) = pat

RECURSIVE StrLess(_, _)
\* lexicographic order of two strings
StrLess(a, b) ==
    IF Len(b) = 0 THEN FALSE
    ELSE IF Len(a) = 0 THEN TRUE
    ELSE IF a[1] < b[1] THEN TRUE
    ELSE IF a[1] > b[1] THEN FALSE
    ELSE StrLess(Tail(a), Tail(b))

-----------------------------------------------------------------------------
(* df.sort(['名称', '日期'])                                                *)

\* mutant of KeyLess: the sort looks at the name only
KeyLessNameOnly(a, b) == StrLess(a.name, b.name)

KeyLess(a, b) ==
    \/ StrLess(a.name, b.name)
    \/ (a.name = b.name /\ a.date < b.date)

RECURSIVE InsertSorted(_, _)
InsertSorted(s, x) ==
    IF Len(s) = 0 THEN <<x>>
    ELSE IF KeyLess(x, s[1]) THEN <<x>> \o s
    ELSE <<s[1]>> \o InsertSorted(Tail(s), x)

RECURSIVE SortByNameDate(_)
SortByNameDate(t) ==
    IF Len(t) = 0 THEN <<>>
    ELSE InsertSorted(SortByNameDate(SubSeq(t, 1, Len(t) - 1)), t[Len(t)])

\* index of the previous row of the same 名称 group, 0 when there is none
PrevInGroup(t, i) ==
    LET js == {j \in 1..(i - 1) : t[j].name = t[i].name}
    IN IF js = {} THEN 0 ELSE CHOOSE j \in js : \A k \in js : k <= j

\* position of row i inside its 名称 group (1-based)
PosInGroup(t, i) == Cardinality({j \in 1..i : t[j].name = t[i].name})

-----------------------------------------------------------------------------
(* compute_limits                                                           *)

\* custom_limits without the keys 'ST' and 'default', in the insertion order
\* of the dict: '68', '30', '8', '4', '9'
PrefixRules ==
    << [prefix |-> <<54, 56>>, pct |-> 2000],
       [prefix |-> <<51, 48>>, pct |-> 2000],
       [prefix |-> <<56>>,     pct |-> 3000],
       [prefix |-> <<52>>,     pct |-> 3000],
       [prefix |-> <<57>>,     pct |-> 3000] >>

RECURSIVE LimitExpr(_, _)
\* The expression get_limit_pct_expr builds: it starts from the default,
\* wraps it in the 'ST' test, and then wraps the result once per code prefix,
\* so the prefix added last is the outermost (first evaluated) test.
LimitExpr(row, k) ==
    IF k = 0
    THEN IF Contains(row.name, StrST) THEN 500 ELSE 1000
    ELSE IF StartsWith(row.code, PrefixRules[k].prefix)
         THEN PrefixRules[k].pct
         ELSE LimitExpr(row, k - 1)

get_limit_pct_expr(row) == LimitExpr(row, Len(PrefixRules))

\* pl.col('收盘').shift(1).over('名称') on the sorted table
PrevClose(t, i) ==
    IF PrevInGroup(t, i) = 0 THEN Null ELSE Some(t[PrevInGroup(t, i)].close)

\* mutant of LimitUpFlag: the close is compared with >= instead of ==
LimitUpFlagAtLeast(pctChg, limit_pct, limit_up_price, close) ==
    KOr(<<pctChg >= limit_pct>>, KGe(Some(close), limit_up_price))

\* 涨停: (涨跌幅 * 0.01 >= 涨跌幅限制) | (涨停价 == 收盘)
LimitUpFlag(pctChg, limit_pct, limit_up_price, close) ==
    KOr(<<pctChg >= limit_pct>>, KEq(limit_up_price, Some(close)))

\* 跌停: (涨跌幅 * 0.01 <= -涨跌幅限制) | (跌停价 == 收盘)
LimitDownFlag(pctChg, limit_pct, limit_down_price, close) ==
    KOr(<<pctChg <= 0 - limit_pct>>, KEq(limit_down_price, Some(close)))

\* mutant of BreakFlag: the close is compared with <= instead of <
BreakFlagAtMost(high, close, limit_up_price) ==
    KAnd(KEq(Round2(Some(high)), limit_up_price),
         KLe(Round2(Some(close)), limit_up_price))

\* 炸板: (最高.round(2) == 涨停价) & (收盘.round(2) < 涨停价)
BreakFlag(high, close, limit_up_price) ==
    KAnd(KEq(Round2(Some(high)), limit_up_price),
         KLt(Round2(Some(close)), limit_up_price))

LimitsRow(t, i) ==
    LET r   == t[i]
        pc  == PrevClose(t, i)
        lim == get_limit_pct_expr(r)
        up  == Round2Scaled(pc, lim)
        dn  == Round2Scaled(pc, 0 - lim)
    IN [prev_close |-> pc,
        limit_pct |-> lim,
        limit_up_price |-> up,
        limit_down_price |-> dn,
        is_limit_up |-> LimitUpFlag(r.pctChg, lim, up, r.close),
        is_limit_down |-> LimitDownFlag(r.pctChg, lim, dn, r.close),
        is_break |-> BreakFlag(r.high, r.close, up)] @@ r

compute_limits(t) ==
    LET s == SortByNameDate(t)
    IN [i \in 1..Len(s) |-> LimitsRow(s, i)]

-----------------------------------------------------------------------------
(* calculate_continuous_limit_up_optimized                                  *)

Max(a, b) == IF a >= b THEN a ELSE b

\* .cast(pl.Int32) of a nullable boolean
CastInt(c) == IF c = <<>> THEN <<>> ELSE IF c[1] THEN <<1>> ELSE <<0>>

\* pl.col('涨停').shift(1, fill_value=False).over('名称')
ShiftedLimitUp(t, i) ==
    IF PrevInGroup(t, i) = 0 THEN <<FALSE>> ELSE t[PrevInGroup(t, i)].is_limit_up

\* is_limit_changed: (涨停 != shifted 涨停).cast(pl.Int32); null when either
\* side of != is null
IsLimitChanged(t, i) == CastInt(KNe(t[i].is_limit_up, ShiftedLimitUp(t, i)))

\* limit_group: is_limit_changed.cumsum().over('名称'); a null stays null and
\* adds nothing to the running sum
LimitGroup(t, i) ==
    IF IsLimitChanged(t, i) = <<>> THEN <<>>
    ELSE <<Cardinality({j \in 1..i : /\ t[j].name = t[i].name
                                     /\ IsLimitChanged(t, j) = <<1>>})>>

\* 连板数: when 涨停 then int_range(0, count).over(['名称','limit_group']) + 1
\* otherwise 0.  Rows whose limit_group is null form one group per name.
StreakLen(t, i) ==
    IF IsTrue(t[i].is_limit_up)
    THEN Cardinality({j \in 1..(i - 1) : /\ t[j].name = t[i].name
                                         /\ LimitGroup(t, j) = LimitGroup(t, i)}) + 1
    ELSE 0

\* mutant of RollingSum5: the rows of the window are counted, not summed
RollingSum5Count(g, i) ==
    LET w == {j \in Max(1, i - 4)..i : g[j] # <<>>}
    IN IF w = {} THEN <<>> ELSE <<Cardinality(w)>>

\* last_5days_count: 涨停.cast(Int32).rolling_sum(window_size=5, min_periods=1)
\* over a group g (the sequence of the limit_up cells of one name)
RollingSum5(g, i) ==
    LET w == {j \in Max(1, i - 4)..i : g[j] # <<>>}
    IN IF w = {} THEN <<>> ELSE <<Cardinality({j \in w : g[j] = <<1>>})>>

\* mutant of WindowStart: a 3-row window
WindowStartShort(current_pos) == Max(1, current_pos - 2)

\* window_start = max(0, current_pos - 4), with 1-based positions
WindowStart(current_pos) == Max(1, current_pos - 4)

\* mutant of FindInWindow: the search runs upward from window_start
FindInWindowFarthest(g, current_pos, window_start) ==
    LET hits == {j \in window_start..current_pos : g[j] = <<1>>}
    IN IF hits = {} THEN 0 ELSE CHOOSE j \in hits : \A k \in hits : j <= k

\* for j in range(current_pos, window_start - 1, -1): the first j with
\* limit_up[j] == 1, i.e. the one nearest to current_pos; 0 if none
FindInWindow(g, current_pos, window_start) ==
    LET hits == {j \in window_start..current_pos : g[j] = <<1>>}
    IN IF hits = {} THEN 0 ELSE CHOOSE j \in hits : \A k \in hits : k <= j

RECURSIVE BackChain(_, _, _, _)
\* the while loop of process_group_with_precheck: <<consecutive_count, start_pos>>
BackChain(g, current_pos, consecutive_count, start_pos) ==
    IF current_pos < 1 THEN <<consecutive_count, start_pos>>
    ELSE LET j == FindInWindow(g, current_pos, WindowStart(current_pos))
         IN IF j = 0 THEN <<consecutive_count, start_pos>>
            ELSE BackChain(g, j - 1, consecutive_count + 1, j)

\* the short-circuit test: last_5days_sum <= 1
PreCheck(last_5days_sum) == last_5days_sum[1] <= 1

\* one iteration of the for loop of process_group_with_precheck
BoardLabel(g, i) ==
    IF g[i] # <<1>> THEN <<0, 0>>
    ELSE IF PreCheck(RollingSum5(g, i)) THEN <<1, 1>>
    ELSE LET c == BackChain(g, i - 1, 1, i)
         IN <<i - c[2] + 1, c[1]>>

process_group_with_precheck(g) == [i \in 1..Len(g) |-> BoardLabel(g, i)]

RECURSIVE GroupNames(_)
\* the keys of group_by('名称', maintain_order=True): order of first appearance
GroupNames(t) ==
    IF Len(t) = 0 THEN <<>>
    ELSE LET rest == GroupNames(SubSeq(t, 1, Len(t) - 1))
             nm   == t[Len(t)].name
         IN IF \E k \in 1..Len(rest) : rest[k] = nm THEN rest ELSE Append(rest, nm)

\* the limit_up column of the rows of one name, in table order
GroupLimitUp(t, nm) ==
    LET rows == SelectSeq(t, LAMBDA r : r.name = nm)
    IN [k \in 1..Len(rows) |-> CastInt(rows[k].is_limit_up)]

RECURSIVE MapGroups(_, _)
\* group_by(...).map_groups(process_group_with_precheck): the per-group results
\* stacked in group order
MapGroups(t, names) ==
    IF Len(names) = 0 THEN <<>>
    ELSE process_group_with_precheck(GroupLimitUp(t, names[1]))
             \o MapGroups(t, Tail(names))

\* with_columns: the new columns replace columns of the same name
AddBoards(r, streak, label) ==
    [streak_len |-> streak, board_label |-> label] @@ r

\* The label column is attached by position (with_columns of result_df's column).
calculate_continuous_limit_up_optimized(t) ==
    LET s      == SortByNameDate(t)
        labels == MapGroups(s, GroupNames(s))
    IN [i \in 1..Len(s) |-> AddBoards(s[i], StreakLen(s, i), labels[i])]

-----------------------------------------------------------------------------
(* calculate_stock_indicators, add_price_relative_indicators,               *)
(* add_candlestick_trend_streaks                                            *)

\* indices of the rows of the name of row i up to row i
GroupUpTo(t, i) == {j \in 1..i : t[j].name = t[i].name}

\* the last P rows of the group of row i, ending at row i
LastRows(t, i, P) ==
    {j \in GroupUpTo(t, i) : Cardinality({k \in GroupUpTo(t, i) : k > j}) < P}

RECURSIVE SumClose(_, _)
SumClose(t, S) ==
    IF S = {} THEN 0
    ELSE LET j == CHOOSE k \in S : TRUE
         IN t[j].close + SumClose(t, S \ {j})

\* pl.col('收盘').shift(P).over('名称')
ShiftClose(t, i, P) ==
    LET js == {j \in GroupUpTo(t, i) :
                  Cardinality({k \in GroupUpTo(t, i) : k > j}) = P}
    IN IF js = {} THEN Null ELSE Some(t[CHOOSE j \in js : TRUE].close)

\* ((收盘 / 收盘.shift(P) - 1) * 100).round(2), in 1/100 percent; the division
\* by a zero close (inf, NaN in the source) is left null here
PeriodReturn(t, i, P) ==
    LET c0 == ShiftClose(t, i, P)
    IN IF c0 = <<>> \/ c0 = <<0>> THEN Null
       ELSE IF c0[1] > 0
            THEN Some(RoundHalfAway((t[i].close - c0[1]) * 10000, c0[1]))
            ELSE Some(RoundHalfAway((c0[1] - t[i].close) * 10000, 0 - c0[1]))

\* 收盘.rolling_mean(window_size=P, min_periods=1).over('名称').round(2), mills
MovingAverage(t, i, P) ==
    10 * RoundHalfAway(SumClose(t, LastRows(t, i, P)),
                       10 * Cardinality(LastRows(t, i, P)))

calculate_stock_indicators(t) ==
    LET s == SortByNameDate(t)
    IN [i \in 1..Len(s) |->
          [ret5 |-> PeriodReturn(s, i, 5),
           ret10 |-> PeriodReturn(s, i, 10),
           ret20 |-> PeriodReturn(s, i, 20),
           ma5 |-> MovingAverage(s, i, 5),
           ma10 |-> MovingAverage(s, i, 10),
           ma20 |-> MovingAverage(s, i, 20)] @@ s[i]]

\* ((收盘 / MA - 1) * 100).round(2), in 1/100 percent; null for a zero average
RelativeToMA(close, ma) ==
    IF ma = 0 THEN Null
    ELSE IF ma > 0 THEN Some(RoundHalfAway((close - ma) * 10000, ma))
    ELSE Some(RoundHalfAway((ma - close) * 10000, 0 - ma))

\* 均线排列: "bull" is 多头排列, "bear" is 空头排列, "mixed" is 均线混乱
MAOrder(r) ==
    IF r.ma5 > r.ma10 /\ r.ma10 > r.ma20 THEN "bull"
    ELSE IF r.ma5 < r.ma10 /\ r.ma10 < r.ma20 THEN "bear"
    ELSE "mixed"

add_price_relative_indicators(t) ==
    [i \in 1..Len(t) |->
        [rel_ma5 |-> RelativeToMA(t[i].close, t[i].ma5),
         rel_ma10 |-> RelativeToMA(t[i].close, t[i].ma10),
         rel_ma20 |-> RelativeToMA(t[i].close, t[i].ma20),
         ma_order |-> MAOrder(t[i])] @@ t[i]]

\* mutant of IsUpCandle: a day that closes at its open counts as an up candle
IsUpCandleOrFlat(r) == r.close >= r.open

\* 阳线: 收盘 > 开盘
IsUpCandle(r) == r.close > r.open

\* 阴线: 收盘 < 开盘
IsDownCandle(r) == r.close < r.open

RECURSIVE UpStreak(_, _)
\* _calc_streaks: up_streak[i] = up_streak[i-1] + 1 if pos[i] else 0
UpStreak(t, i) ==
    IF ~IsUpCandle(t[i]) THEN 0
    ELSE IF PrevInGroup(t, i) = 0 THEN 1
    ELSE UpStreak(t, PrevInGroup(t, i)) + 1

RECURSIVE DownStreak(_, _)
\* _calc_streaks: down_streak[i] = down_streak[i-1] + 1 if neg[i] else 0
DownStreak(t, i) ==
    IF ~IsDownCandle(t[i]) THEN 0
    ELSE IF PrevInGroup(t, i) = 0 THEN 1
    ELSE DownStreak(t, PrevInGroup(t, i)) + 1

add_candlestick_trend_streaks(t) ==
    LET s == SortByNameDate(t)
    IN [i \in 1..Len(s) |->
          [is_up_candle |-> IsUpCandle(s[i]),
           is_down_candle |-> IsDownCandle(s[i]),
           up_streak_days |-> UpStreak(s, i),
           down_streak_days |-> DownStreak(s, i)] @@ s[i]]

\* the derived table both pipelines hand to safe_write_parquet, before any
\* de-duplication: compute_limits, the streak engine, the indicators and the
\* candle streaks, in this order
DeriveStates(t) ==
    add_candlestick_trend_streaks(
        add_price_relative_indicators(
            calculate_stock_indicators(
                calculate_continuous_limit_up_optimized(
                    compute_limits(t)))))

-----------------------------------------------------------------------------
(* Files.  A path holds no file, a complete parquet file, or a file that    *)
(* is not (yet) a readable parquet file: empty, truncated or half copied.   *)

NoFile == [kind |-> "none", rows |-> <<>>]

File(rows) == [kind |-> "complete", rows |-> rows]

PartialFile == [kind |-> "partial", rows |-> <<>>]

\* os.path.exists(path)
Exists(f) == f.kind # "none"

\* all orders of a finite set of rows
Perms(S) ==
    {f \in [1..Cardinality(S) -> S] : \A x \in S : \E i \in 1..Cardinality(S) : f[i] = x}

DateCode(r) == <<r.date, r.code>>

DateName(r) == <<r.date, r.name>>

\* mutant of UniqueDateCodeKeepLast: the first row of each key is kept
UniqueDateCodeKeepFirst(t) ==
    Perms({t[i] : i \in {i \in 1..Len(t) :
                            \A j \in 1..(i - 1) : DateCode(t[j]) # DateCode(t[i])}})

\* combined.unique(subset=["日期", "代码"], keep="last"): the last row of each
\* key is kept; maintain_order is left at False, so polars promises no row
\* order and every order is a possible result
UniqueDateCodeKeepLast(t) ==
    Perms({t[i] : i \in {i \in 1..Len(t) :
                            \A j \in (i + 1)..Len(t) : DateCode(t[j]) # DateCode(t[i])}})

\* stock_data.unique(subset=['日期', '名称']): keep and maintain_order are left
\* at their defaults, so any row of a key may be the one kept and the rows
\* come in any order
UniqueDateName(t) ==
    LET keys    == {DateName(t[i]) : i \in 1..Len(t)}
        choices == {c \in [keys -> 1..Len(t)] : \A k \in keys : DateName(t[c[k]]) = k}
    IN UNION {Perms({t[c[k]] : k \in keys}) : c \in choices}

-----------------------------------------------------------------------------
(* Inputs of the derivation pipeline.                                       *)

\* longest single-name history handed to the streak engine
MaxLen == 8

NameA == <<65>>

NameSTA == <<42, 83, 84, 65>>

Code600 == <<54, 48, 48>>

RawRow(code, name, date, open, high, close, pctChg) ==
    [code |-> code, name |-> name, date |-> date, open |-> open,
     high |-> high, close |-> close, pctChg |-> pctChg]

\* codes "600", "688", "300", "830", "430", "920", "002"
Codes ==
    { Code600, <<54, 56, 56>>, <<51, 48, 48>>, <<56, 51, 48>>,
      <<52, 51, 48>>, <<57, 50, 48>>, <<48, 48, 50>> }

Names == {NameA, NameSTA}

\* closes of the day before (mills): 0, 0.04, 0.09, 10.00
PrevCloses == {0, 40, 90, 10000}

\* closes of the day (mills)
Closes == {0, 40, 90, 9000, 10800, 10996, 11000, 11010}

Highs == {11000, 11004, 11500}

PctChgs == {0 - 1000, 0, 500, 990, 1000}

\* one or two rows of one stock with every combination of the columns that
\* compute_limits reads on the last row
LimitInputs ==
    { <<RawRow(c, n, 2, 10000, h, cl, p)>> :
          c \in Codes, n \in Names, h \in Highs, cl \in Closes, p \in PctChgs }
    \cup
    { <<RawRow(c, n, 1, 10000, pc, pc, 0), RawRow(c, n, 2, 10000, h, cl, p)>> :
          c \in Codes, n \in Names, pc \in PrevCloses, h \in Highs,
          cl \in Closes, p \in PctChgs }

\* histories of one main-board stock whose close never moves: the row is
\* limit-up exactly through its 涨跌幅 column
BoardInputs ==
    UNION { { [i \in 1..n |-> RawRow(Code600, NameA, i, 10000, 10000, 10000, f[i])] :
                f \in [1..n -> {0, 1000}] } : n \in 1..MaxLen }

\* histories of one stock (code 600) whose name gains or loses the ST marker
\* from one day to the next
RenameInputs ==
    UNION { { [i \in 1..n |-> RawRow(Code600, nm[i], i, 10000, 10000, 10000, f[i])] :
                nm \in [1..n -> Names], f \in [1..n -> {0, 1000}] } : n \in 2..3 }

\* longest history handed to the candle streaks
MaxCandles == 5

\* closes of a day that opens at 10.00: below, at and above the open
CandleCloses == {9900, 10000, 10100}

\* histories of one stock whose days close below, at or above their open
CandleInputs ==
    UNION { { [i \in 1..n |-> RawRow(Code600, NameA, i, 10000, 10100, cl[i], 0)] :
                cl \in [1..n -> CandleCloses] } : n \in 1..MaxCandles }

-----------------------------------------------------------------------------
(* The derivation pipeline, in the order of create_limit_status_parquet.    *)

\* the variables of the file operations, at rest
StoreAtRest ==
    /\ raw = NoFile
    /\ snap = NoFile
    /\ ret = "None"
    /\ hist = [phase |-> 0, batch |-> <<>>, snap1 |-> NoFile]
    /\ rt = [phase |-> 0, snapR |-> NoFile]
    /\ prevRaw = NoFile

WriterAtRest ==
    /\ wpc = "idle"
    /\ attempt = 0
    /\ tmp = NoFile
    /\ tmpBound = "unbound"
    /\ wdf = <<>>
    /\ old = NoFile
    /\ seen = NoFile
    /\ litter = FALSE

\* a new manager: no cache, nothing loaded yet
LoaderAtRest ==
    /\ cache = <<>>
    /\ age = 0
    /\ backup = NoFile
    /\ loaded = [val |-> <<>>, parseFailed |-> FALSE, moved |-> FALSE, rebuild |-> FALSE,
                 calls |-> 0]
    /\ rebuilt = FALSE

InitDerive ==
    /\ stage = "raw"
    /\ df \in LimitInputs \cup BoardInputs \cup RenameInputs \cup CandleInputs
    /\ out = <<>>
    /\ StoreAtRest
    /\ WriterAtRest
    /\ LoaderAtRest

RunComputeLimits ==
    /\ stage = "raw"
    /\ out' = compute_limits(df)
    /\ stage' = "limits"
    /\ UNCHANGED <<loadVars, df, storeVars, histVars, writeVars>>

RunCalcContinuous ==
    /\ stage = "limits"
    /\ out' = calculate_continuous_limit_up_optimized(out)
    /\ stage' = "boards"
    /\ UNCHANGED <<loadVars, df, storeVars, histVars, writeVars>>

\* the technical indicators and the candle streaks, the last steps before
\* the table is written
RunIndicatorsAndCandles ==
    /\ stage = "boards"
    /\ out' = add_candlestick_trend_streaks(
                  add_price_relative_indicators(calculate_stock_indicators(out)))
    /\ stage' = "candles"
    /\ UNCHANGED <<loadVars, df, storeVars, histVars, writeVars>>

NextDerive == RunComputeLimits \/ RunCalcContinuous \/ RunIndicatorsAndCandles

SpecDerive == InitDerive /\ [][NextDerive]_vars

-----------------------------------------------------------------------------
(* The raw-bar store and the snapshot, one action per handler.              *)

MaxDate == 2

MaxRows == 2

NameB == <<66>>

Code002 == <<48, 48, 50>>

StoreStocks == {<<Code600, NameA>>, <<Code002, NameB>>}

\* bars a provider can deliver: the close never moves, the 涨跌幅 column says
\* whether the day is limit-up
StoreBars ==
    { RawRow(s[1], s[2], d, 10000, 10000, 10000, p) :
          s \in StoreStocks, d \in 1..MaxDate, p \in {0, 1000} }

\* a provider batch holds at most one bar per (date, symbol)
Batches ==
    {<<>>} \cup
    UNION { { b \in [1..n -> StoreBars] :
                \A i, j \in 1..n : i # j => DateCode(b[i]) # DateCode(b[j]) } :
            n \in 1..MaxRows }

\* load_metadata / load_stock_metadata: None (here the empty table) when the
\* file is missing or cannot be read
LoadRaw == IF raw.kind = "complete" THEN raw.rows ELSE <<>>

\* what safe_write_parquet can leave behind and return, for a snapshot file
\* f and a table t: an empty table is refused; otherwise the table is
\* written and the call returns True, or every attempt fails and the call
\* returns False with the old file, a half-copied file or the new file at
\* the path (the last two through the copy fallback of shutil.move)
SafeWriteOutcomes(f, t) ==
    IF t = <<>> THEN {<<"False", f>>}
    ELSE {<<"True", File(t)>>, <<"False", f>>, <<"False", PartialFile>>,
          <<"False", File(t)>>}

\* what the full build returns and leaves at the snapshot path when it finds
\* file f there: without raw bars it returns False and writes nothing
PrecomputeOutcomes(f) ==
    IF LoadRaw = <<>> THEN {<<"False", f>>}
    ELSE SafeWriteOutcomes(f, DeriveStates(LoadRaw))

\* the full build of the snapshot from the raw bars
precompute_market_states ==
    \E o \in PrecomputeOutcomes(snap) :
        /\ ret' = o[1]
        /\ snap' = o[2]

\* the incremental merge: with a snapshot on disk, read it, derive every
\* column again from the raw bars, drop duplicates, write
update_market_states_incremental ==
    IF Exists(snap)
    THEN IF snap.kind = "partial" \/ raw.kind # "complete"
         THEN /\ ret' = "False"
              /\ snap' = snap
         ELSE \E t \in UniqueDateName(DeriveStates(raw.rows)) :
              \E o \in SafeWriteOutcomes(snap, t) :
                 /\ ret' = o[1]
                 /\ snap' = o[2]
    ELSE precompute_market_states

\* the raw-bar merge of update_metadata: the bars on disk and the batch are
\* concatenated, deduplicated and written back
update_metadata(batch) ==
    LET combined == LoadRaw \o batch
    IN /\ Cardinality({DateCode(combined[i]) : i \in 1..Len(combined)}) <= MaxRows
       /\ IF combined = <<>>
          THEN raw' = raw
          ELSE \E t \in UniqueDateCodeKeepLast(combined) : raw' = File(t)
       /\ ret' = "True"
       /\ snap' = snap

UpdateMetadata(batch) ==
       /\ update_metadata(batch)
       /\ hist' = IF hist.phase = 2 /\ batch = hist.batch
                  THEN [hist EXCEPT !.phase = 3]
                  ELSE [phase |-> 1, batch |-> batch, snap1 |-> NoFile]
       /\ rt' = IF batch = <<>> THEN rt ELSE [phase |-> 0, snapR |-> NoFile]
       /\ prevRaw' = raw
       /\ UNCHANGED <<loadVars, deriveVars, writeVars>>

Precompute ==
    /\ precompute_market_states
    /\ hist' = [phase |-> 0, batch |-> <<>>, snap1 |-> NoFile]
    /\ rt' = IF ret' = "True" THEN [phase |-> 1, snapR |-> snap']
             ELSE [phase |-> 0, snapR |-> NoFile]
    /\ prevRaw' = NoFile
    /\ UNCHANGED <<loadVars, raw, deriveVars, writeVars>>

Incremental ==
    /\ update_market_states_incremental
    /\ hist' = IF ret' = "True" /\ hist.phase = 1
                 THEN [hist EXCEPT !.phase = 2, !.snap1 = snap']
               ELSE IF ret' = "True" /\ hist.phase = 3
                 THEN [hist EXCEPT !.phase = 4]
               ELSE [phase |-> 0, batch |-> <<>>, snap1 |-> NoFile]
    /\ rt' = IF ret' = "True" /\ rt.phase = 1 /\ Exists(snap)
             THEN [rt EXCEPT !.phase = 2]
             ELSE [phase |-> 0, snapR |-> NoFile]
    /\ prevRaw' = NoFile
    /\ UNCHANGED <<loadVars, raw, deriveVars, writeVars>>

Init ==
    /\ stage = "raw"
    /\ df = <<>>
    /\ out = <<>>
    /\ StoreAtRest
    /\ WriterAtRest
    /\ LoaderAtRest

Next ==
    \/ \E batch \in Batches : UpdateMetadata(batch)
    \/ Precompute
    \/ Incremental

Spec == Init /\ [][Next]_vars

-----------------------------------------------------------------------------
(* safe_write_parquet step by step, inside a build or a merge, with a       *)
(* reader of the snapshot path and a crash of the writing process.          *)

\* max_retries of safe_write_parquet
max_retries == 3

\* the call returns r to precompute_market_states or to
\* update_market_states_incremental, which returns r to its caller
Return(r) ==
    /\ ret' = r
    /\ wpc' = "idle"

\* entry of safe_write_parquet(t, market_states_path)
BeginWrite(t) ==
    IF t = <<>>
    THEN /\ Return("False")
         /\ UNCHANGED <<attempt, tmp, tmpBound, wdf, old, seen, litter>>
    ELSE /\ wdf' = t
         /\ old' = snap
         /\ seen' = snap
         /\ attempt' = 0
         /\ tmpBound' = "unbound"
         /\ wpc' = "makedirs"
         /\ UNCHANGED <<ret, tmp, litter>>

\* precompute_market_states up to the call of safe_write_parquet
StartBuild ==
    /\ wpc = "idle"
    /\ IF LoadRaw = <<>>
       THEN /\ Return("False")
            /\ UNCHANGED <<attempt, tmp, tmpBound, wdf, old, seen, litter>>
       ELSE BeginWrite(DeriveStates(LoadRaw))
    /\ UNCHANGED <<loadVars, raw, snap, deriveVars, histVars>>

\* update_market_states_incremental up to the call of safe_write_parquet
StartMerge ==
    /\ wpc = "idle"
    /\ Exists(snap)
    /\ IF snap.kind = "partial" \/ raw.kind # "complete"
       THEN /\ Return("False")
            /\ UNCHANGED <<attempt, tmp, tmpBound, wdf, old, seen, litter>>
       ELSE \E t \in UniqueDateName(DeriveStates(raw.rows)) : BeginWrite(t)
    /\ UNCHANGED <<loadVars, raw, snap, deriveVars, histVars>>

\* os.makedirs(..., exist_ok=True), then temp_file = None
Makedirs ==
    /\ wpc = "makedirs"
    /\ \/ /\ tmpBound' = "none"
          /\ wpc' = "mktemp"
       \/ /\ tmpBound' = tmpBound
          /\ wpc' = "except"
    /\ UNCHANGED <<loadVars, storeVars, deriveVars, histVars, attempt, tmp, wdf, old, seen, litter>>

\* tempfile.NamedTemporaryFile(delete=False, dir=..., suffix='.tmp'): a new
\* empty file beside the snapshot; a temporary file that an earlier attempt
\* could not remove stays behind
MkTemp ==
    /\ wpc = "mktemp"
    /\ \/ /\ tmp' = PartialFile
          /\ tmpBound' = "file"
          /\ litter' = (litter \/ Exists(tmp))
          /\ wpc' = "write"
       \/ /\ wpc' = "except"
          /\ UNCHANGED <<tmp, tmpBound, litter>>
    /\ UNCHANGED <<loadVars, storeVars, deriveVars, histVars, attempt, wdf, old, seen>>

\* df.write_parquet(temp_path)
WriteTemp ==
    /\ wpc = "write"
    /\ \/ /\ tmp' = File(wdf)
          /\ wpc' = "move"
       \/ /\ tmp' = PartialFile
          /\ wpc' = "except"
    /\ UNCHANGED <<loadVars, storeVars, deriveVars, histVars, attempt, tmpBound, wdf, old, seen, litter>>

\* shutil.move(temp_path, file_path): os.rename puts the temporary file at
\* the snapshot path in one step; when os.rename raises OSError (always on
\* Windows when the snapshot exists) shutil.move copies instead, and
\* opening the target for writing truncates it
Move ==
    /\ wpc = "move"
    /\ \/ /\ snap' = tmp
          /\ tmp' = NoFile
          /\ Return("True")
       \/ /\ snap' = PartialFile
          /\ wpc' = "copy"
          /\ UNCHANGED <<tmp, ret>>
       \/ /\ wpc' = "except"
          /\ UNCHANGED <<snap, tmp, ret>>
    /\ UNCHANGED <<loadVars, raw, deriveVars, histVars, attempt, tmpBound, wdf, old, seen, litter>>

\* the copy of shutil.move's fallback: the bytes of the temporary file reach
\* the target, or the copy raises half way
Copy ==
    /\ wpc = "copy"
    /\ \/ /\ snap' = tmp
          /\ wpc' = "unlink"
       \/ /\ snap' = snap
          /\ wpc' = "except"
    /\ UNCHANGED <<loadVars, raw, ret, deriveVars, histVars, attempt, tmp, tmpBound, wdf, old, seen, litter>>

\* os.unlink(src) at the end of shutil.move's fallback
UnlinkSrc ==
    /\ wpc = "unlink"
    /\ \/ /\ tmp' = NoFile
          /\ Return("True")
       \/ /\ wpc' = "except"
          /\ UNCHANGED <<tmp, ret>>
    /\ UNCHANGED <<loadVars, raw, snap, deriveVars, histVars, attempt, tmpBound, wdf, old, seen, litter>>

\* the except clause: with temp_file never assigned the clean-up itself
\* raises and the caller's handler returns False; otherwise the temporary
\* file is removed if it can be, and the loop retries or returns False
Except ==
    /\ wpc = "except"
    /\ IF tmpBound = "unbound"
       THEN /\ Return("False")
            /\ UNCHANGED <<attempt, tmp>>
       ELSE /\ \E removed \in (IF tmpBound = "file" /\ Exists(tmp)
                               THEN {TRUE, FALSE} ELSE {FALSE}) :
                  tmp' = IF removed THEN NoFile ELSE tmp
            /\ IF attempt < max_retries - 1
               THEN /\ attempt' = attempt + 1
                    /\ wpc' = "makedirs"
                    /\ ret' = ret
               ELSE /\ Return("False")
                    /\ attempt' = attempt
    /\ UNCHANGED <<loadVars, raw, snap, deriveVars, histVars, tmpBound, wdf, old, seen, litter>>

\* the writing process is killed inside safe_write_parquet; the files stay
\* as they are
Crash ==
    /\ wpc \notin {"idle", "crashed"}
    /\ wpc' = "crashed"
    /\ UNCHANGED <<loadVars, storeVars, deriveVars, histVars, attempt, tmp, tmpBound, wdf, old, seen, litter>>

\* a new process takes over; the temporary file of the killed one stays
Restart ==
    /\ wpc = "crashed"
    /\ wpc' = "idle"
    /\ ret' = "None"
    /\ litter' = (litter \/ Exists(tmp))
    /\ tmp' = NoFile
    /\ UNCHANGED <<loadVars, raw, snap, deriveVars, histVars, attempt, tmpBound, wdf, old, seen>>

\* a reader opens the snapshot path, at any moment
ReadSnapshot ==
    /\ seen' = snap
    /\ seen' # seen
    /\ UNCHANGED <<loadVars, storeVars, deriveVars, histVars, wpc, attempt, tmp, tmpBound, wdf, old, litter>>

\* one bar of one stock at a time
WriteBatches ==
    { <<b>> : b \in {x \in StoreBars : x.code = Code600 /\ x.pctChg = 1000} }

\* new bars reach the raw-bar store between two writes of the snapshot
NewBars ==
    /\ wpc = "idle"
    /\ \E batch \in WriteBatches : update_metadata(batch)
    /\ UNCHANGED <<loadVars, deriveVars, histVars, writeVars>>

NextWrite ==
    \/ NewBars
    \/ StartBuild
    \/ StartMerge
    \/ Makedirs
    \/ MkTemp
    \/ WriteTemp
    \/ Move
    \/ Copy
    \/ UnlinkSrc
    \/ Except
    \/ Crash
    \/ Restart
    \/ ReadSnapshot

SpecWrite == Init /\ [][NextWrite]_vars

-----------------------------------------------------------------------------
(* load_market_states of one manager, with its in-memory cache, beside the  *)
(* builds and merges that replace the snapshot.                             *)

\* the cache is used while (now - _cache_timestamp).seconds < CacheTTL
CacheTTL == 300

\* timedelta.seconds is the seconds part of the difference, days left out
SecondsPerDay == 86400

\* (datetime.now() - self._cache_timestamp).seconds < 300
CacheFresh(a) == (a % SecondsPerDay) < CacheTTL

\* the ages the clock steps through, in seconds
Ages == {0, 299, 300, 86399, 86400, 86699, 86700}

\* the messages of the exceptions that reading a damaged snapshot can raise:
\* the two the handler looks for, and any other
ParseErrors == {"Invalid thrift", "File out of specification", "other"}

\* "Invalid thrift" in str(e) or "File out of specification" in str(e)
IsCorruption(msg) == msg \in {"Invalid thrift", "File out of specification"}

\* what a call returned and did; calls tells one call from the next
LoadReport(val, parseFailed, moved, rebuild) ==
    [val |-> val, parseFailed |-> parseFailed, moved |-> moved, rebuild |-> rebuild,
     calls |-> 1 - loaded.calls]

\* the table is read, cached and returned
LoadRead(f, parseFailed, moved, rebuild) ==
    /\ cache' = Some(f.rows)
    /\ age' = 0
    /\ loaded' = LoadReport(Some(f.rows), parseFailed, moved, rebuild)

\* the call returns None
LoadNone(parseFailed, moved, rebuild) ==
    /\ loaded' = LoadReport(Null, parseFailed, moved, rebuild)
    /\ UNCHANGED <<cache, age>>

\* precompute_market_states called from load_market_states with file f at
\* the snapshot path, and load_market_states called again when it succeeds
LoadRebuild(f, parseFailed, moved) ==
    \E o \in PrecomputeOutcomes(f) :
        /\ ret' = o[1]
        /\ snap' = o[2]
        /\ IF o[1] = "True"
           THEN LoadRead(o[2], parseFailed, moved, TRUE)
           ELSE LoadNone(parseFailed, moved, TRUE)

\* load_market_states
LoadMarketStates ==
    /\ IF cache # Null /\ CacheFresh(age)
       THEN /\ loaded' = LoadReport(cache, FALSE, FALSE, FALSE)
            /\ UNCHANGED <<cache, age, snap, ret, backup>>
       ELSE IF ~Exists(snap)
       THEN /\ LoadRebuild(snap, FALSE, FALSE)
            /\ backup' = backup
       ELSE IF snap.kind = "complete"
       THEN /\ LoadRead(snap, FALSE, FALSE, FALSE)
            /\ UNCHANGED <<snap, ret, backup>>
       ELSE \E msg \in ParseErrors :
               IF IsCorruption(msg)
               THEN \/ /\ backup' = snap
                       /\ LoadRebuild(NoFile, TRUE, TRUE)
                    \/ /\ LoadNone(TRUE, FALSE, FALSE)
                       /\ UNCHANGED <<snap, ret, backup>>
               ELSE /\ LoadNone(TRUE, FALSE, FALSE)
                    /\ UNCHANGED <<snap, ret, backup>>
    /\ rebuilt' = FALSE
    /\ UNCHANGED <<raw, deriveVars, histVars, writeVars>>

\* time passes
Tick ==
    /\ cache # Null
    /\ \E a \in Ages :
          /\ a > age
          /\ \A b \in Ages : b > age => a <= b
          /\ age' = a
    /\ UNCHANGED <<cache, backup, loaded, rebuilt, storeVars, deriveVars, histVars, writeVars>>

\* precompute_market_states called on the manager
ManagerPrecompute ==
    /\ precompute_market_states
    /\ rebuilt' = (ret' = "True")
    /\ UNCHANGED <<cache, age, backup, loaded, raw, deriveVars, histVars, writeVars>>

\* update_market_states_incremental called on the manager
ManagerIncremental ==
    /\ update_market_states_incremental
    /\ rebuilt' = (ret' = "True")
    /\ UNCHANGED <<cache, age, backup, loaded, raw, deriveVars, histVars, writeVars>>

NextLoad ==
    \/ NewBars
    \/ ManagerPrecompute
    \/ ManagerIncremental
    \/ LoadMarketStates
    \/ Tick

SpecLoad == Init /\ [][NextLoad]_vars

-----------------------------------------------------------------------------
(* A provider batch with malformed bars, through update_metadata and the    *)
(* full build.                                                              *)

\* a bar as the provider delivers it: the cells are strings, '' (here null)
\* for a missing value
ProviderRow(code, name, date, price, volume) ==
    [code |-> code, name |-> name, date |-> date, price |-> price, volume |-> volume]

\* the price cells of a provider bar: missing, -10.00, 10.00
ProviderPrices == {Null, Some(0 - 10000), Some(10000)}

\* the volume cells of a provider bar: missing, -100, 100
ProviderVolumes == {Null, Some(0 - 100), Some(100)}

\* two bars of stock A, days 1 and 2, in either order
ProviderBatches ==
    LET bars(d) == {ProviderRow(Code600, NameA, d, p, v) :
                        p \in ProviderPrices, v \in ProviderVolumes}
    IN { <<a, b>> : a \in bars(1), b \in bars(2) } \cup
       { <<b, a>> : a \in bars(1), b \in bars(2) }

\* new_data_pd[(volume != '') & volume.notna()]
DropEmptyVolume(t) == SelectSeq(t, LAMBDA r : r.volume # Null)

\* the casts of the select: a strict cast of '' to Float64 raises
CastRaises(t) == \E i \in 1..Len(t) : t[i].price = Null

\* the bar with the columns of the raw-bar store
ToRawRow(r) ==
    [volume |-> r.volume[1]] @@
        RawRow(r.code, r.name, r.date, r.price[1], r.price[1], r.price[1], 0)

InitClean ==
    /\ stage = "fetched"
    /\ df \in ProviderBatches
    /\ out = <<>>
    /\ StoreAtRest
    /\ WriterAtRest
    /\ LoaderAtRest

\* update_metadata on the fetched batch, with no raw bars on disk yet
CleanAndMerge ==
    /\ stage = "fetched"
    /\ stage' = "merged"
    /\ LET kept == DropEmptyVolume(df)
       IN IF CastRaises(kept)
          THEN /\ ret' = "Raised"
               /\ raw' = raw
          ELSE /\ ret' = "True"
               /\ IF kept = <<>>
                  THEN raw' = raw
                  ELSE \E t \in UniqueDateCodeKeepLast([i \in 1..Len(kept) |-> ToRawRow(kept[i])]) :
                          raw' = File(t)
    /\ UNCHANGED <<snap, df, out, histVars, writeVars, loadVars>>

\* precompute_market_states on the merged bars
BuildSnapshot ==
    /\ stage = "merged"
    /\ stage' = "built"
    /\ precompute_market_states
    /\ UNCHANGED <<raw, df, out, histVars, writeVars, loadVars>>

NextClean == CleanAndMerge \/ BuildSnapshot

SpecClean == InitClean /\ [][NextClean]_vars

-----------------------------------------------------------------------------
(* The rebuild on the same bars in every order.                             *)

MaxPermDates == 3

\* bars of stock A on the days 1..MaxPermDates and of stock B on day 1, each
\* day limit-up or flat, in every order
PermInputs ==
    UNION { Perms({RawRow(Code600, NameA, d, 10000, 10000, 10000, f[d]) :
                       d \in 1..MaxPermDates}
                  \cup {RawRow(Code002, NameB, 1, 10000, 10000, 10000, f[MaxPermDates + 1])}) :
            f \in [1..(MaxPermDates + 1) -> {0, 1000}] }

InitRebuild ==
    /\ stage = "raw"
    /\ df \in PermInputs
    /\ out = <<>>
    /\ StoreAtRest
    /\ WriterAtRest
    /\ LoaderAtRest

\* create_limit_status_parquet up to the write
RunRebuild ==
    /\ stage = "raw"
    /\ out' = DeriveStates(df)
    /\ stage' = "derived"
    /\ UNCHANGED <<loadVars, df, storeVars, histVars, writeVars>>

NextRebuild == RunRebuild

SpecRebuild == InitRebuild /\ [][NextRebuild]_vars

-----------------------------------------------------------------------------
(* Properties of the derivation pipeline.                                   *)

Derived == stage \in {"limits", "boards"}

Boarded == stage = "boards"

\* the row is limit-up (涨停 is true; null and false are not)
Up(t, i) == IsTrue(t[i].is_limit_up)

SameName(t) == \A i, j \in 1..Len(t) : t[i].name = t[j].name

\* C4: in every row produced by compute_limits, 涨停 and 跌停 are never both
\* true.
C4_NeverBothLimits ==
    Derived => \A i \in 1..Len(out) :
        ~(IsTrue(out[i].is_limit_up) /\ IsTrue(out[i].is_limit_down))

RECURSIVE RunLength(_, _)
\* length of the maximal run of consecutive limit-up rows ending at row i
RunLength(t, i) ==
    IF i < 1 THEN 0
    ELSE IF Up(t, i) THEN 1 + RunLength(t, i - 1) ELSE 0

\* C5: on a date-ordered history of one name, 连板数 of every row is the
\* length of the maximal run of consecutive limit-up rows ending at that row.
C5_StreakIsRunLength ==
    (Boarded /\ SameName(out)) =>
        \A i \in 1..Len(out) : out[i].streak_len = RunLength(out, i)

\* number of rows that are not limit-up strictly between rows j and i
GapRows(t, j, i) == Cardinality({k \in (j + 1)..(i - 1) : ~Up(t, k)})

\* rows j < i are consecutive limit-up rows: no limit-up row lies between them
ConsecutiveUps(t, j, i) ==
    /\ j < i
    /\ Up(t, j)
    /\ Up(t, i)
    /\ \A k \in (j + 1)..(i - 1) : ~Up(t, k)

\* C6: for every limit-up row with label "D天B板": 1 <= B <= D, the row D-1
\* positions earlier exists in the same history and is limit-up, B is the
\* number of limit-up rows among the D rows ending at the row, and between
\* two consecutive limit-up rows of that window lie at most 5 other rows.
C6_LabelWindow ==
    (Boarded /\ SameName(out)) =>
        \A i \in 1..Len(out) :
            Up(out, i) =>
                LET D == out[i].board_label[1]
                    B == out[i].board_label[2]
                IN /\ 1 <= B
                   /\ B <= D
                   /\ i - (D - 1) >= 1
                   /\ Up(out, i - (D - 1))
                   /\ B = Cardinality({k \in (i - D + 1)..i : Up(out, k)})
                   /\ \A j, k \in (i - D + 1)..i :
                          ConsecutiveUps(out, j, k) => GapRows(out, j, k) <= 5

\* a labelled row whose chain spans a gap and more than one hop
C6_Witness ==
    /\ Boarded
    /\ SameName(out)
    /\ \E i \in 1..Len(out) :
          /\ Up(out, i)
          /\ out[i].board_label[1] >= 6
          /\ out[i].board_label[2] >= 3
          /\ out[i].board_label[2] < out[i].board_label[1]

\* C7: whenever a limit-up row is preceded by another limit-up row with
\* g <= 5 rows that are not limit-up in between, the label of the later row
\* includes the earlier one: B >= 2 and D >= g + 2.
C7_ChainSurvivesGap5 ==
    (Boarded /\ SameName(out)) =>
        \A i \in 1..Len(out) : \A j \in 1..(i - 1) :
            (ConsecutiveUps(out, j, i) /\ GapRows(out, j, i) <= 5) =>
                /\ out[i].board_label[2] >= 2
                /\ out[i].board_label[1] >= GapRows(out, j, i) + 2

\* the 涨停 column of the table is exactly the given list of booleans
FlagsAre(t, flags) ==
    /\ Len(t) = Len(flags)
    /\ \A i \in 1..Len(flags) : t[i].is_limit_up = <<flags[i]>>

ScenarioA == <<TRUE, FALSE, FALSE, FALSE, TRUE>>

ScenarioB == <<TRUE, FALSE, FALSE, FALSE, FALSE, FALSE, FALSE, TRUE>>

\* C8: flags [T,F,F,F,T] give row 5 the label "5天2板"; flags
\* [T,F,F,F,F,F,F,T] give row 8 the label "1天1板".
C8_Scenarios ==
    (Boarded /\ SameName(out)) =>
        /\ FlagsAre(out, ScenarioA) => out[5].board_label = <<5, 2>>
        /\ FlagsAre(out, ScenarioB) => out[8].board_label = <<1, 1>>

C8_Witness ==
    /\ Boarded
    /\ SameName(out)
    /\ FlagsAre(out, ScenarioB)
    /\ out[8].board_label = <<1, 1>>

\* the precedence the specification states: ST, then 68/30, then 8/4/9
StatedLimitPct(row) ==
    IF Contains(row.name, StrST) THEN 500
    ELSE IF StartsWith(row.code, <<54, 56>>) \/ StartsWith(row.code, <<51, 48>>)
         THEN 2000
    ELSE IF \/ StartsWith(row.code, <<56>>)
            \/ StartsWith(row.code, <<52>>)
            \/ StartsWith(row.code, <<57>>)
         THEN 3000
    ELSE 1000

\* C9: the limit percentage is 5% when the name contains "ST" whatever the
\* code prefix, else 20% for prefix 68 or 30, else 30% for prefix 8, 4 or 9,
\* else 10%.
C9_StFirst ==
    Derived => \A i \in 1..Len(out) : out[i].limit_pct = StatedLimitPct(out[i])

\* close / prev_close - 1 >= limit_pct in floating point: a zero previous
\* close gives +inf for a positive close and NaN for a zero close
RatioAtLeast(close, prev_close, limit_pct) ==
    /\ prev_close # <<>>
    /\ \/ prev_close[1] > 0 /\ close * 10000 >= prev_close[1] * (10000 + limit_pct)
       \/ prev_close[1] = 0 /\ close > 0

\* close / prev_close - 1 <= -limit_pct
RatioAtMost(close, prev_close, limit_pct) ==
    /\ prev_close # <<>>
    /\ prev_close[1] > 0
    /\ close * 10000 <= prev_close[1] * (10000 - limit_pct)

-----------------------------------------------------------------------------
(* Properties of the raw-bar store and the snapshot.                        *)

\* the rows of a snapshot file, as a set
RowSet(f) == {f.rows[i] : i \in 1..Len(f.rows)}

\* merging the same batch twice leaves the same rows in the snapshot, in
\* whatever order
SameRowsAfterSecondMerge ==
    hist.phase = 4 =>
        /\ snap.kind = "complete"
        /\ RowSet(snap) = RowSet(hist.snap1)
        /\ Len(snap.rows) = Len(hist.snap1.rows)

\* a merge without new bars leaves the rows of the rebuild, in whatever order
SameRowsAfterEmptyMerge ==
    rt.phase = 2 =>
        /\ snap.kind = "complete"
        /\ RowSet(snap) = RowSet(rt.snapR)
        /\ Len(snap.rows) = Len(rt.snapR.rows)

\* C2: after a batch has been merged (raw-bar merge, then the incremental
\* snapshot merge), merging the same batch a second time leaves the snapshot
\* file exactly as the first merge left it.
C2_MergeIdempotent ==
    hist.phase = 4 => snap = hist.snap1

\* C3: a full rebuild followed by an incremental merge that brings no new
\* bars leaves the snapshot file exactly as the rebuild wrote it, rows in
\* the same order.
C3_RebuildThenEmptyMerge ==
    rt.phase = 2 => snap = rt.snapR

\* C1: while a build or a merge replaces a snapshot that existed, the
\* snapshot path holds, and a reader sees, either the complete old file or
\* the complete new file, also when the writer fails or is killed.
C1_OldOrNewSnapshot ==
    old.kind = "complete" =>
        /\ snap \in {old, File(wdf)}
        /\ seen \in {old, File(wdf)}

-----------------------------------------------------------------------------
(* Further properties of the derivation pipeline.                           *)

\* the row is the first of its symbol's history: it has no previous close
FirstOfSymbol(t, i) == PosInGroup(t, i) = 1

\* C11: the first row of every symbol's history is classified as non-limit
\* whatever its other columns hold: 涨停 is not true, 跌停 is not true,
\* 连板数 = 0 and 连板天数 = "0天0板".
C11_FirstRowNonLimit ==
    Boarded => \A i \in 1..Len(out) :
        FirstOfSymbol(out, i) =>
            /\ ~IsTrue(out[i].is_limit_up)
            /\ ~IsTrue(out[i].is_limit_down)
            /\ out[i].streak_len = 0
            /\ out[i].board_label = <<0, 0>>

\* c (mills, a multiple of 10) is x (in 1/10000 mill) rounded to 2 decimals:
\* no other cent is nearer
IsNearestCent(c, x) ==
    /\ c % 10 = 0
    /\ c * 10000 - x <= 50000
    /\ x - c * 10000 <= 50000

\* the price in mills rounded to 2 decimals
NearestCent(p) ==
    CHOOSE c \in (p - 5)..(p + 5) : c % 10 = 0 /\ c - p <= 5 /\ p - c < 5

\* C12: 涨停价 is 昨收 x (1 + limit) and 跌停价 is 昨收 x (1 - limit), each
\* rounded to 2 decimals; 炸板 is true exactly when 最高 rounded to 2 decimals
\* equals 涨停价 and 收盘 rounded to 2 decimals is strictly below 涨停价.  With
\* 昨收 10.00 and limit 0.10 the prices are 11.00 and 9.00, a close of 11.00
\* is limit-up, and a high of 11.00 with a close of 10.80 is a break.
C12_LimitPricesAndBreak ==
    Derived => \A i \in 1..Len(out) :
        LET r == out[i] IN
        ~IsNull(r.prev_close) =>
            /\ ~IsNull(r.limit_up_price) /\ ~IsNull(r.limit_down_price)
            /\ IsNearestCent(r.limit_up_price[1], r.prev_close[1] * (10000 + r.limit_pct))
            /\ IsNearestCent(r.limit_down_price[1], r.prev_close[1] * (10000 - r.limit_pct))
            /\ IsTrue(r.is_break) <=>
                   /\ NearestCent(r.high) = r.limit_up_price[1]
                   /\ NearestCent(r.close) < r.limit_up_price[1]
            /\ (r.prev_close[1] = 10000 /\ r.limit_pct = 1000) =>
                   /\ r.limit_up_price[1] = 11000
                   /\ r.limit_down_price[1] = 9000
                   /\ r.close = 11000 => IsTrue(r.is_limit_up)
                   /\ (r.high = 11000 /\ r.close = 10800) => IsTrue(r.is_break)

\* a 10% stock with previous close 10.00 touches 11.00 and closes at 10.80
C12_Witness ==
    /\ Derived
    /\ \E i \in 1..Len(out) :
          /\ out[i].prev_close = <<10000>>
          /\ out[i].limit_pct = 1000
          /\ out[i].high = 11000
          /\ out[i].close = 10800
          /\ IsTrue(out[i].is_break)
          /\ out[i].limit_up_price = <<11000>>

\* window_size of the rolling count of limit-up days (today included)
window_size == 5

\* no other row of the symbol among the window_size - 1 rows before row i is
\* limit-up
Isolated(t, i) ==
    \A j \in 1..(i - 1) :
        (t[j].name = t[i].name /\ PosInGroup(t, i) - PosInGroup(t, j) <= window_size - 1)
            => ~Up(t, j)

\* C13: 连板天数 is the sentinel "0天0板" exactly on the rows that are not
\* limit-up; a limit-up row has a label "D天B板" with D >= 1 and B >= 1, and an
\* isolated limit-up has "1天1板".
C13_SentinelLabel ==
    Boarded => \A i \in 1..Len(out) :
        /\ (out[i].board_label = <<0, 0>>) <=> ~Up(out, i)
        /\ Up(out, i) => (out[i].board_label[1] >= 1 /\ out[i].board_label[2] >= 1)
        /\ (Up(out, i) /\ Isolated(out, i)) => out[i].board_label = <<1, 1>>

\* a limit-up five rows after the previous one, with non-limit rows between
C13_Witness ==
    /\ Boarded
    /\ Len(out) >= 6
    /\ Up(out, 1) /\ Up(out, 6)
    /\ \A k \in 2..5 : ~Up(out, k) /\ out[k].board_label = <<0, 0>>
    /\ Isolated(out, 6)
    /\ out[6].board_label = <<1, 1>>

-----------------------------------------------------------------------------
(* Further properties of the raw-bar store and the snapshot.                *)

\* C14: in every persisted snapshot the rows are ordered by (symbol, date)
\* with strictly increasing dates inside each symbol, so that there is
\* exactly one row per (symbol, date).
C14_SnapshotOrdered ==
    snap.kind = "complete" =>
        \A i, j \in 1..Len(snap.rows) :
            i < j => KeyLess(snap.rows[i], snap.rows[j])

-----------------------------------------------------------------------------
(* Properties of the rebuild.                                               *)

\* the rows of a table, as a set
TableRows(t) == {t[i] : i \in 1..Len(t)}

RawOf(r) == RawRow(r.code, r.name, r.date, r.open, r.high, r.close, r.pctChg)

\* the keys of a table
KeysOf(t) == {DateCode(t[i]) : i \in 1..Len(t)}

\* table new is table before with table batch upserted by (date, code)
IsUpsert(before, batch, new) ==
    /\ \A k \in 1..Len(batch) :
          /\ Cardinality({i \in 1..Len(new) : DateCode(new[i]) = DateCode(batch[k])}) = 1
          /\ \E i \in 1..Len(new) : new[i] = batch[k]
    /\ \A j \in 1..Len(before) :
          DateCode(before[j]) \notin KeysOf(batch) =>
              \E i \in 1..Len(new) : new[i] = before[j]

-----------------------------------------------------------------------------
(* Further properties of safe_write_parquet inside a build or a merge.      *)

\* C17: when the replacement of the snapshot has failed on every attempt,
\* the build or merge reports failure and the snapshot file is the one that
\* was there before the call.
C17_FailureLeavesSnapshot ==
    [][(wpc = "except" /\ wpc' = "idle" /\ old.kind = "complete")
          => (ret' = "False" /\ snap' = old)]_vars

-----------------------------------------------------------------------------
(* Properties of load_market_states.                                        *)

\* C18: whenever load_market_states could not parse the snapshot on disk,
\* whatever the error, it has moved the damaged file aside to a backup path
\* and has started a full rebuild before returning.
C18_CorruptMovedAndRebuilt ==
    loaded.parseFailed =>
        /\ loaded.moved
        /\ backup.kind = "partial"
        /\ loaded.rebuild

-----------------------------------------------------------------------------
(* Properties of the cleaning of a provider batch.                          *)

\* a null or negative price, or a null or negative volume
Malformed(r) ==
    \/ r.price = Null
    \/ r.volume = Null
    \/ (r.price # Null /\ r.price[1] < 0)
    \/ (r.volume # Null /\ r.volume[1] < 0)

\* table t has a row for the (date, code) of the provider bar r
HasBarOf(t, r) == \E i \in 1..Len(t) : DateCode(t[i]) = DateCode(r)

\* C19: a malformed bar of a batch never appears in the merged raw bars or
\* in the snapshot, and the other bars of the batch are persisted.
C19_MalformedSkipped ==
    /\ stage \in {"merged", "built"} =>
          \A k \in 1..Len(df) :
              HasBarOf(raw.rows, df[k]) <=> ~Malformed(df[k])
    /\ (stage = "built" /\ ret = "True") =>
          \A k \in 1..Len(df) :
              HasBarOf(snap.rows, df[k]) <=> ~Malformed(df[k])

-----------------------------------------------------------------------------
(* Properties of the cache of load_market_states.                           *)

\* C20: after precompute_market_states or update_market_states_incremental
\* has replaced the snapshot file, the next load_market_states call on the
\* same manager returns the snapshot now on disk, not the table cached
\* before.
C20_LoadAfterRebuild ==
    [][(rebuilt /\ loaded'.calls # loaded.calls) => loaded'.val = Some(snap.rows)]_vars


-----------------------------------------------------------------------------
(* Sequences per symbol.                                                    *)

\* the row of the same code with the greatest earlier date, 0 when there is
\* none
SymbolPrev(t, i) ==
    LET earlier == {j \in 1..Len(t) : t[j].code = t[i].code /\ t[j].date < t[i].date}
    IN IF earlier = {} THEN 0
       ELSE CHOOSE j \in earlier : \A k \in earlier : t[k].date <= t[j].date

\* C21: the sequential quantities follow the date-ordered rows of one stock
\* code: a row's 昨收 is the close of the previous row of the same code
\* whatever the names of the two rows, a limit-up row that follows a limit-up
\* row of the same code continues its 连板数, and 涨跌幅限制 is taken from the
\* row's own name.
C21_SequencesPerCode ==
    Derived => \A i \in 1..Len(out) :
        LET j == SymbolPrev(out, i)
        IN /\ out[i].limit_pct = get_limit_pct_expr(out[i])
           /\ j # 0 => out[i].prev_close = Some(out[j].close)
           /\ (j # 0 /\ Boarded /\ Up(out, i) /\ Up(out, j)) =>
                  out[i].streak_len = out[j].streak_len + 1


\* the label of row i when the backward chain is run for every limit-up row,
\* without the rolling-count short-circuit
LabelWithoutShortCircuit(g, i) ==
    IF g[i] # <<1>> THEN <<0, 0>>
    ELSE LET c == BackChain(g, i - 1, 1, i)
         IN <<i - c[2] + 1, c[1]>>

\* C22: the rolling-count short-circuit never changes a label: on every
\* history of one name, the label of every row equals the label the backward
\* chain alone would give it.
C22_ShortCircuitEquivalent ==
    (Boarded /\ SameName(out)) =>
        LET g == [k \in 1..Len(out) |-> CastInt(out[k].is_limit_up)]
        IN \A i \in 1..Len(out) :
               out[i].board_label = LabelWithoutShortCircuit(g, i)


-----------------------------------------------------------------------------
(* Candle streaks.                                                          *)

Candled == stage = "candles"

\* rows i-k+1..i all close above their open and the row before them, if any,
\* does not
UpRunIs(t, i, k) ==
    /\ k <= i
    /\ \A j \in (i - k + 1)..i : t[j].close > t[j].open
    /\ (i - k >= 1) => ~(t[i - k].close > t[i - k].open)

\* rows i-k+1..i all close below their open and the row before them, if any,
\* does not
DownRunIs(t, i, k) ==
    /\ k <= i
    /\ \A j \in (i - k + 1)..i : t[j].close < t[j].open
    /\ (i - k >= 1) => ~(t[i - k].close < t[i - k].open)

\* C23: on a date-ordered history of one name, 连阳天数 is the number of
\* consecutive rows ending at the row with close > open and 连阴天数 the
\* number with close < open; each is 0 on a row that is not a candle of its
\* direction, and a row with close = open has both at 0.
C23_CandleStreaks ==
    (Candled /\ SameName(out)) =>
        \A i \in 1..Len(out) :
            /\ out[i].up_streak_days \in 0..i
            /\ out[i].down_streak_days \in 0..i
            /\ UpRunIs(out, i, out[i].up_streak_days)
            /\ DownRunIs(out, i, out[i].down_streak_days)
            /\ out[i].close = out[i].open =>
                   (out[i].up_streak_days = 0 /\ out[i].down_streak_days = 0)
            /\ i > 1 => out[i - 1].date < out[i].date

\* a run of up candles, then a flat day, then a run of down candles
C23_Witness ==
    /\ Candled
    /\ SameName(out)
    /\ Len(out) = 5
    /\ out[2].up_streak_days = 2
    /\ out[3].close = out[3].open
    /\ out[3].up_streak_days = 0
    /\ out[3].down_streak_days = 0
    /\ out[5].down_streak_days = 2
    /\ out[5].up_streak_days = 0


-----------------------------------------------------------------------------
(* SectorDataManager._calculate_technical_indicators, at the level of the   *)
(* column types.  A table is its schema (column -> dtype), the number of    *)
(* rows of each sector name and whether some rows have a null sector name.  *)
(* Columns: sector_name 板块名称, sector_type 板块类型, sector_code 板块代码,   *)
(* source 数据源, date 日期, open 开盘, close 收盘, high 最高, low 最低,         *)
(* volume 成交量, amount 成交额, pct_chg 涨跌幅, amplitude 振幅, turnover 换手率, *)
(* ret5 5日涨跌幅, ret10 10日涨跌幅, ma5 MA5, ma10 MA10, ma20 MA20,            *)
(* amount_ratio 成交额量比, up_days 连阳天数.                                  *)

\* most rows of one sector in an input table
MaxSectorRows == 20

text_cols == {"sector_name", "sector_type", "sector_code", "source"}

indicator_float_columns ==
    {"pct_chg", "amplitude", "turnover", "ret5", "ret10", "ma5", "ma10", "ma20",
     "amount_ratio"}

indicator_numeric_columns == indicator_float_columns \cup {"up_days"}

numeric_price_cols ==
    {"open", "close", "high", "low", "volume", "amount"} \cup indicator_float_columns

int_cols == {"up_days"}

bool_cols == {"is_positive_day"}

date_cols == {"date"}

\* df.with_columns([expr.alias(col)]) on a schema
WithColumn(s, col, dtype) == (col :> dtype) @@ s

\* dtype of a - b for two numeric columns
SubDtype(a, b) == IF a = "Float64" \/ b = "Float64" THEN "Float64" ELSE "Int64"

\* dtype of a / b: true division gives Float64 for integer and float columns
DivDtype(a, b) == "Float64"

\* dtype of column.rolling_mean(window_size=n)
RollingMeanDtype(a) == "Float64"

\* the branch 'if sector_df.height < 2': literal columns, then the casts
ShortSectorFrame(s) ==
    [c \in DOMAIN s \cup indicator_numeric_columns |->
        IF c \in indicator_float_columns THEN "Float64"
        ELSE IF c = "up_days" THEN "Int64"
        ELSE s[c]]

\* the columns of a sector of h >= 2 rows before the final casts
ComputedColumns(s, h) ==
    LET pct  == DivDtype(SubDtype(s["close"], s["open"]), s["open"])
        amp  == DivDtype(SubDtype(s["high"], s["low"]), s["open"])
        rtn  == DivDtype(SubDtype(s["close"], s["close"]), s["close"])
        ma   == RollingMeanDtype(s["close"])
        aRat == DivDtype(s["amount"], RollingMeanDtype(s["amount"]))
    IN [c \in indicator_numeric_columns \cup bool_cols |->
          CASE c = "pct_chg" -> pct
            [] c = "amplitude" -> amp
            [] c = "turnover" -> "Float64"
            [] c = "ret5" -> IF h >= 5 THEN rtn ELSE "Float64"
            [] c = "ret10" -> IF h >= 10 THEN rtn ELSE "Float64"
            [] c = "ma5" -> IF h >= 5 THEN ma ELSE "Float64"
            [] c = "ma10" -> IF h >= 10 THEN ma ELSE "Float64"
            [] c = "ma20" -> IF h >= 20 THEN ma ELSE "Float64"
            [] c = "amount_ratio" -> IF h >= 5 THEN aRat ELSE "Float64"
            [] c = "up_days" -> "Int64"
            [] c = "is_positive_day" -> "Boolean"]

\* one iteration of 'for sector_name in df[板块名称].unique()'
SectorFrame(s, h) ==
    IF h < 2 THEN ShortSectorFrame(s)
    ELSE LET computed == ComputedColumns(s, h)
         IN [c \in DOMAIN s \cup DOMAIN computed |->
               IF c \in indicator_float_columns THEN "Float64"
               ELSE IF c = "up_days" THEN "Int64"
               ELSE IF c \in DOMAIN computed THEN computed[c]
               ELSE s[c]]

\* the dtype a known column is cast to; an unknown column keeps its dtype
UnifiedDtype(c, dtype) ==
    IF c \in int_cols THEN "Int64"
    ELSE IF c \in bool_cols THEN "Boolean"
    ELSE IF c \in date_cols THEN "Date"
    ELSE IF c \in text_cols THEN "Utf8"
    ELSE IF c \in numeric_price_cols THEN "Float64"
    ELSE dtype

\* missing columns are filled (an unknown one with a Null literal), then every
\* known column is cast
StandardizeFrame(f, all_columns) ==
    [c \in all_columns |->
        UnifiedDtype(c, IF c \in DOMAIN f THEN f[c] ELSE "Null")]

\* the frames appended to result_dfs: one per sector name with rows, and an
\* empty one for the null name (the filter on a null name keeps no row)
ResultFrames(t, s) ==
    { SectorFrame(s, t.heights[n]) : n \in {m \in DOMAIN t.heights : t.heights[m] > 0} }
    \cup (IF t.nullRows THEN {SectorFrame(s, 0)} ELSE {})

_calculate_technical_indicators(t) ==
    LET s       == IF "amount" \in DOMAIN t.schema THEN t.schema
                   ELSE WithColumn(t.schema, "amount", "Float64")
        frames  == ResultFrames(t, s)
        all     == UNION {DOMAIN f : f \in frames}
        unified == {StandardizeFrame(f, all) : f \in frames}
    IN IF frames = {} THEN [t EXCEPT !.schema = s]
       ELSE IF Cardinality(unified) > 1 THEN t
       ELSE [t EXCEPT !.schema = CHOOSE u \in unified : TRUE]

SectorNames == {"S1", "S2"}

SectorHeights == {0, 1, 4, 5, 9, 10, 19, MaxSectorRows}

\* schemas of the tables the sector files hold: text and date columns as
\* strings or already typed, prices as floats or integers, 成交额 present or not
SectorSchemas ==
    { [c \in text_cols \cup {"date", "open", "close", "high", "low", "volume"}
               \cup (IF hasAmount THEN {"amount"} ELSE {}) |->
          IF c \in text_cols THEN txt
          ELSE IF c = "date" THEN dt
          ELSE num] :
        txt \in {"Utf8", "Int64"}, dt \in {"Utf8", "Date"},
        num \in {"Float64", "Int64"}, hasAmount \in BOOLEAN }

SectorInputs ==
    { [schema |-> s, heights |-> h, nullRows |-> nr] :
        s \in SectorSchemas, h \in [SectorNames -> SectorHeights], nr \in BOOLEAN }

InitSector ==
    /\ stage = "raw"
    /\ df \in SectorInputs
    /\ out = <<>>
    /\ StoreAtRest
    /\ WriterAtRest
    /\ LoaderAtRest

RunSectorIndicators ==
    /\ stage = "raw"
    /\ out' = _calculate_technical_indicators(df)
    /\ stage' = "sector"
    /\ UNCHANGED <<loadVars, df, storeVars, histVars, writeVars>>

NextSector == RunSectorIndicators

SpecSector == InitSector /\ [][NextSector]_vars

HasDtype(t, c, dtypes) == c \in DOMAIN t.schema /\ t.schema[c] \in dtypes

SectorSchemaOk(t) ==
    /\ \A c \in text_cols : HasDtype(t, c, {"Utf8"})
    /\ \A c \in indicator_float_columns : HasDtype(t, c, {"Float64"})
    /\ HasDtype(t, "up_days", {"Int64", "Int32"})

\* C24: whatever the input table and the number of rows of each sector, the
\* result keeps the four text columns as string columns, has the nine
\* indicator columns as float columns and 连阳天数 as an integer column.
C24_IndicatorSchema ==
    stage = "sector" => SectorSchemaOk(out)

\* the same for tables with at least one row
SectorSchemaOfNonEmpty ==
    (stage = "sector" /\ (df.nullRows \/ \E n \in SectorNames : df.heights[n] > 0))
        => SectorSchemaOk(out)


-----------------------------------------------------------------------------
(* The contract of safe_write_parquet.                                      *)

\* the step that ends a call of safe_write_parquet that went past the empty
\* test
WriteCallEnds == wpc \notin {"idle", "crashed"} /\ wpc' = "idle"

\* the step in which the clean-up of the except clause reads temp_file before
\* any assignment to it: the UnboundLocalError leaves safe_write_parquet
WriteCallRaises == wpc = "except" /\ tmpBound = "unbound" /\ wpc' = "idle"

SafeWriteNeverRaises == [][~WriteCallRaises]_vars

\* C25: safe_write_parquet never raises and makes at most max_retries
\* attempts; it returns True only with the written table at the target, and
\* otherwise returns False with the target as it was before the call and no
\* temporary file left, whichever step of an attempt failed.
C25_SafeWriteContract ==
    [][WriteCallEnds =>
          /\ ~WriteCallRaises
          /\ attempt < max_retries
          /\ ret' = "True" => snap' = File(wdf)
          /\ ret' = "False" => (snap' = old /\ ~Exists(tmp'))]_vars


-----------------------------------------------------------------------------
(* The time to live of the in-memory snapshot.                              *)

\* a step that is a call of load_market_states
LoadStep == loaded'.calls # loaded.calls

\* C26: a call of load_market_states made 300 seconds or more after the
\* cache was filled, elapsed times beyond one day included, reads the
\* snapshot file again: with a readable file it returns the table of the
\* file and the cache is refilled at that moment.
C26_StaleCacheReread ==
    [][(LoadStep /\ cache # Null /\ age >= CacheTTL /\ snap.kind = "complete")
          => (loaded'.val = Some(snap.rows) /\ cache' = Some(snap.rows) /\ age' = 0)]_vars

\* the same for elapsed times below one day
StaleCacheRereadWithinDay ==
    [][(LoadStep /\ cache # Null /\ age >= CacheTTL /\ age < SecondsPerDay
            /\ snap.kind = "complete")
          => (loaded'.val = Some(snap.rows) /\ cache' = Some(snap.rows) /\ age' = 0)]_vars


-----------------------------------------------------------------------------
(* DataProcessor.merge_and_deduplicate_data.  A row is its key (the value   *)
(* of unique_columns) and a payload; existing_data may be None.             *)

\* most rows of existing_data and of new_data
MaxMergeRows == 2

MergeKeys == {"k1", "k2"}

\* payloads of the rows on disk and of the fetched rows
ExistingRows == {[key |-> k, val |-> v] : k \in MergeKeys, v \in {"old1", "old2"}}

NewRows == {[key |-> k, val |-> v] : k \in MergeKeys, v \in {"new1", "new2"}}

SeqsUpTo(S, n) == UNION {[1..m -> S] : m \in 0..n}

\* the calls: existing_data None or a table, new_data a table, and whether the
\* two tables have the same columns and dtypes
MergeInputs ==
    { [existingNone |-> TRUE, existing |-> <<>>, new |-> nw, sameSchema |-> TRUE] :
          nw \in SeqsUpTo(NewRows, MaxMergeRows) }
    \cup
    { [existingNone |-> FALSE, existing |-> ex, new |-> nw, sameSchema |-> ss] :
          ex \in SeqsUpTo(ExistingRows, MaxMergeRows),
          nw \in SeqsUpTo(NewRows, MaxMergeRows), ss \in BOOLEAN }

\* combined_data.unique(unique_columns, keep='last'): the last row of each key,
\* in an order polars does not promise
UniqueKeepLast(t) ==
    Perms({t[i] : i \in {i \in 1..Len(t) :
                            \A j \in (i + 1)..Len(t) : t[j].key # t[i].key}})

\* the possible results of merge_and_deduplicate_data; pl.concat raises on
\* tables of different schemas and the handler returns new_data
merge_and_deduplicate_data(c) ==
    IF ~c.existingNone /\ c.existing # <<>>
    THEN IF c.sameSchema THEN UniqueKeepLast(c.existing \o c.new) ELSE {c.new}
    ELSE {c.new}

InitMerge ==
    /\ stage = "call"
    /\ df \in MergeInputs
    /\ out = <<>>
    /\ StoreAtRest
    /\ WriterAtRest
    /\ LoaderAtRest

RunMergeAndDeduplicate ==
    /\ stage = "call"
    /\ out' \in merge_and_deduplicate_data(df)
    /\ stage' = "returned"
    /\ UNCHANGED <<loadVars, df, storeVars, histVars, writeVars>>

NextMerge == RunMergeAndDeduplicate

SpecMerge == InitMerge /\ [][NextMerge]_vars

OneRowPerKey(t) == \A i, j \in 1..Len(t) : t[i].key = t[j].key => i = j

KeysIn(t) == {t[i].key : i \in 1..Len(t)}

\* every key of both inputs is represented in t by a row of new_data
NewRowWins(c, t) ==
    \A i \in 1..Len(t) :
        t[i].key \in KeysIn(c.existing) \cap KeysIn(c.new) => t[i] \in NewRows

\* C27: the table returned has at most one row per key, whatever
\* existing_data (None, empty or not) and new_data (duplicate keys included),
\* and for a key of both inputs the row kept is the one of new_data.
C27_MergeDeduplicates ==
    stage = "returned" => (OneRowPerKey(out) /\ NewRowWins(df, out))

\* the same when existing_data has rows and the same schema as new_data
MergeDeduplicatesOntoExisting ==
    (stage = "returned" /\ df.existing # <<>> /\ df.sameSchema)
        => (OneRowPerKey(out) /\ NewRowWins(df, out))


-----------------------------------------------------------------------------
(* The key-level cache of utils/levels.py.  Here out is the cache file, df  *)
(* the payload last written for each key ("none" before the first write)    *)
(* and stage tells whether a read of the file has failed or a write has     *)
(* been interrupted so far.                                                 *)

LevelKey(code, date, window_days, method_ver) ==
    [code |-> code, date |-> date, window_days |-> window_days,
     method_ver |-> method_ver]

\* three keys that differ in one key column each
LevelKeys ==
    { LevelKey("600", "d1", 120, "v1"),
      LevelKey("600", "d2", 120, "v1"),
      LevelKey("600", "d1", 60, "v1") }

\* the levels column of a record
LevelPayloads == {"a", "b"}

LevelRecords == {[key |-> k, levels |-> p] : k \in LevelKeys, p \in LevelPayloads}

\* the tables read_levels_cache can return for file f: the empty table when
\* the file is missing or pl.read_parquet raises (a damaged file, or a file
\* that cannot be opened at this moment), else the rows of the file
read_levels_cache(f) ==
    IF f.kind = "complete" THEN {f.rows, <<>>} ELSE {<<>>}

\* df.filter(~((code == ...) & (date == ...) & (window_days == ...) &
\* (method_ver == ...)))
DropKey(t, rec) ==
    SelectSeq(t, LAMBDA r :
        ~(/\ r.key.code = rec.key.code
          /\ r.key.date = rec.key.date
          /\ r.key.window_days = rec.key.window_days
          /\ r.key.method_ver = rec.key.method_ver))

\* the rows write_levels_cache writes, given the table t it has read
write_levels_cache_rows(t, rec) ==
    IF t = <<>> THEN <<rec>> ELSE DropKey(t, rec) \o <<rec>>

InitLevels ==
    /\ stage = "cache"
    /\ df = [k \in LevelKeys |-> "none"]
    /\ out = NoFile
    /\ StoreAtRest
    /\ WriterAtRest
    /\ LoaderAtRest

\* write_levels_cache(record)
WriteLevelsCache ==
    /\ stage \in {"cache", "damaged"}
    /\ \E rec \in LevelRecords : \E t \in read_levels_cache(out) :
          /\ out' = File(write_levels_cache_rows(t, rec))
          /\ df' = [df EXCEPT ![rec.key] = rec.levels]
          /\ stage' = IF out.kind = "complete" /\ t # out.rows THEN "damaged" ELSE stage
    /\ UNCHANGED <<loadVars, storeVars, histVars, writeVars>>

\* write_parquet onto the cache path is interrupted: the file is left
\* incomplete and the call does not return
InterruptedWrite ==
    /\ stage \in {"cache", "damaged"}
    /\ Exists(out)
    /\ out.kind = "complete"
    /\ out' = PartialFile
    /\ stage' = "damaged"
    /\ UNCHANGED <<loadVars, df, storeVars, histVars, writeVars>>

NextLevels == WriteLevelsCache \/ InterruptedWrite

SpecLevels == InitLevels /\ [][NextLevels]_vars

\* the rows of key k in table t
RowsOfKey(t, k) == {i \in 1..Len(t) : t[i].key = k}

\* the file holds, for every key, exactly the record last written for it
CacheIsLastWritten ==
    \A k \in LevelKeys :
        IF df[k] = "none" THEN RowsOfKey(out.rows, k) = {}
        ELSE /\ Cardinality(RowsOfKey(out.rows, k)) = 1
             /\ \A i \in RowsOfKey(out.rows, k) : out.rows[i].levels = df[k]

\* C28: after any sequence of write_levels_cache calls the cache holds one
\* record per (code, date, window_days, method_ver), the one written last for
\* that key, and the records of the other keys are still there, also when a
\* call could not read the existing cache file.
C28_CacheKeepsRecords ==
    (stage \in {"cache", "damaged"} /\ out.kind = "complete") => CacheIsLastWritten

\* the same while every read of the file has succeeded
CacheKeepsRecordsWhileReadable ==
    (stage = "cache" /\ out.kind = "complete") => CacheIsLastWritten


-----------------------------------------------------------------------------
(* Break against limit-up.                                                  *)

\* C29: no row produced by compute_limits has 炸板 and 涨停 both true.
C29_BreakExcludesLimitUp ==
    Derived => \A i \in 1..Len(out) :
        ~(IsTrue(out[i].is_break) /\ IsTrue(out[i].is_limit_up))

\* the 涨跌幅 column of the row is the change of its close against the previous
\* close of the same name
PctMatchesCloses(r) ==
    /\ r.prev_close # <<>>
    /\ r.prev_close[1] > 0
    /\ r.pctChg * r.prev_close[1] = (r.close - r.prev_close[1]) * 10000

\* the same for rows whose 涨跌幅 column agrees with the closes
BreakExcludesLimitUpOnMatchingPct ==
    Derived => \A i \in 1..Len(out) :
        PctMatchesCloses(out[i]) =>
            ~(IsTrue(out[i].is_break) /\ IsTrue(out[i].is_limit_up))


-----------------------------------------------------------------------------
(* load_market_states step by step.  stage is the position of the call and  *)
(* out what the call has done so far.  'return self.load_market_states()'   *)
(* is a call in tail position: the callee's result is the caller's result,  *)
(* so the model keeps the position of the innermost call and no stack.      *)

LoadPositions == {"enter", "rebuild_missing", "read", "repair", "rebuild_corrupt"}

\* the call returns val to the caller of the outermost load_market_states
LoadReturn(val) ==
    /\ loaded' = LoadReport(val, out.parseFailed, out.moved, out.rebuild)
    /\ stage' = "idle"
    /\ out' = <<>>

InitLoadLoop ==
    /\ stage = "idle"
    /\ df = <<>>
    /\ out = <<>>
    /\ StoreAtRest
    /\ WriterAtRest
    /\ LoaderAtRest

\* new bars reach the raw-bar store between two calls
LoopNewBars ==
    /\ stage = "idle"
    /\ \E batch \in WriteBatches : update_metadata(batch)
    /\ UNCHANGED <<loadVars, deriveVars, histVars, writeVars>>

\* the time to live of the cache passes between two calls
LoopTick ==
    /\ stage = "idle"
    /\ cache # Null
    /\ age < CacheTTL
    /\ age' = CacheTTL
    /\ UNCHANGED <<cache, backup, loaded, rebuilt, storeVars, deriveVars, histVars, writeVars>>

\* a caller calls load_market_states
CallLoad ==
    /\ stage = "idle"
    /\ stage' = "enter"
    /\ out' = [parseFailed |-> FALSE, moved |-> FALSE, rebuild |-> FALSE]
    /\ UNCHANGED <<loadVars, df, storeVars, histVars, writeVars>>

\* the cache test and the os.path.exists test
EnterLoad ==
    /\ stage = "enter"
    /\ IF cache # Null /\ CacheFresh(age)
       THEN /\ LoadReturn(cache)
            /\ UNCHANGED <<cache, age>>
       ELSE /\ stage' = IF Exists(snap) THEN "read" ELSE "rebuild_missing"
            /\ UNCHANGED <<cache, age, loaded, out>>
    /\ UNCHANGED <<backup, rebuilt, df, storeVars, histVars, writeVars>>

\* precompute_market_states, then load_market_states again if it returned
\* True, else None
RebuildAndReload ==
    \E o \in PrecomputeOutcomes(snap) :
        /\ ret' = o[1]
        /\ snap' = o[2]
        /\ IF o[1] = "True"
           THEN /\ stage' = "enter"
                /\ out' = [out EXCEPT !.rebuild = TRUE]
                /\ UNCHANGED <<cache, age, loaded>>
           ELSE /\ LoadReturn(Null)
                /\ UNCHANGED <<cache, age>>

\* the branch of the missing file
RebuildMissing ==
    /\ stage = "rebuild_missing"
    /\ RebuildAndReload
    /\ UNCHANGED <<backup, rebuilt, df, raw, histVars, writeVars>>

\* pl.read_parquet raised with message msg
ReadRaised(msg) ==
    IF IsCorruption(msg)
    THEN /\ stage' = "repair"
         /\ out' = [out EXCEPT !.parseFailed = TRUE]
         /\ UNCHANGED <<cache, age, loaded>>
    ELSE /\ loaded' = LoadReport(Null, TRUE, out.moved, out.rebuild)
         /\ stage' = "idle"
         /\ out' = <<>>
         /\ UNCHANGED <<cache, age>>

\* pl.read_parquet on the file at the snapshot path: a readable file is read,
\* cached and returned, an incomplete one raises
ReadFile ==
    /\ stage = "read"
    /\ IF snap.kind = "complete"
       THEN /\ cache' = Some(snap.rows)
            /\ age' = 0
            /\ LoadReturn(Some(snap.rows))
       ELSE \E msg \in ParseErrors : ReadRaised(msg)
    /\ UNCHANGED <<backup, rebuilt, df, storeVars, histVars, writeVars>>

\* pl.read_parquet raises on the file the build has just written: the reader
\* does not accept what the writer produced, or the storage returns damaged
\* bytes
ReadRejected ==
    /\ stage = "read"
    /\ snap.kind = "complete"
    /\ \E msg \in ParseErrors : ReadRaised(msg)
    /\ UNCHANGED <<backup, rebuilt, df, storeVars, histVars, writeVars>>

\* shutil.move(market_states_path, backup_path): the file is moved aside, or
\* the move raises and the call returns None
MoveAside ==
    /\ stage = "repair"
    /\ \/ /\ backup' = snap
          /\ snap' = NoFile
          /\ stage' = "rebuild_corrupt"
          /\ out' = [out EXCEPT !.moved = TRUE]
          /\ UNCHANGED <<cache, age, loaded>>
       \/ /\ LoadReturn(Null)
          /\ UNCHANGED <<cache, age, backup, snap>>
    /\ UNCHANGED <<rebuilt, df, raw, ret, histVars, writeVars>>

\* the rebuild of the repair branch
RebuildCorrupt ==
    /\ stage = "rebuild_corrupt"
    /\ RebuildAndReload
    /\ UNCHANGED <<backup, rebuilt, df, raw, histVars, writeVars>>

NextLoadLoop ==
    \/ LoopNewBars
    \/ LoopTick
    \/ CallLoad
    \/ EnterLoad
    \/ RebuildMissing
    \/ ReadFile
    \/ ReadRejected
    \/ MoveAside
    \/ RebuildCorrupt

\* the position of a call in progress changes: every step of a call moves to
\* another position or returns
LoadAdvances == stage \in LoadPositions /\ stage' \in LoadPositions \cup {"idle"}

\* the code is synchronous and no step of the call waits for anything, so a
\* call in progress takes its next step
SpecLoadLoop == InitLoadLoop /\ [][NextLoadLoop]_vars /\ WF_stage(LoadAdvances)

====
